---- MODULE Spec2Model ----
(***************************************************************************)
(* Model of the SAT study-plan generator (src/src/lib/types.ts).           *)
(*                                                                         *)
(* generateStudyPlan is a synchronous pipeline; the model runs it one      *)
(* stage per action.  Every JavaScript number is an IEEE-754 double; the   *)
(* model computes with doubles exactly (round to nearest, ties to even),   *)
(* so that comparisons such as `projectedImprovement >= gap` and           *)
(* Math.ceil(weeks * 0.55) give what the code gives.                       *)
(***************************************************************************)
EXTENDS Integers, Sequences, FiniteSets, TLC

(***************************************************************************)
(* Arbitrary-precision naturals: little-endian sequences of limbs in base  *)
(* 2^15, without leading (most significant) zero limbs.  <<>> is zero.     *)
(***************************************************************************)
IntMax(a, b) == IF a >= b THEN a ELSE b
IntMin(a, b) == IF a <= b THEN a ELSE b

RECURSIVE Pow2(_)
Pow2(k) == IF k = 0 THEN 1 ELSE 2 * Pow2(k - 1)

RECURSIVE IntBitLen(_)
IntBitLen(n) == IF n = 0 THEN 0 ELSE 1 + IntBitLen(n \div 2)

Base == Pow2(15)
LimbBits == IntBitLen(Base) - 1

RECURSIVE BigTrim(_)
BigTrim(a) ==
    IF a = <<>> THEN a
    ELSE IF a[Len(a)] = 0 THEN BigTrim(SubSeq(a, 1, Len(a) - 1)) ELSE a

RECURSIVE BigFromInt(_)
BigFromInt(n) == IF n = 0 THEN <<>> ELSE <<n % Base>> \o BigFromInt(n \div Base)

RECURSIVE BigToInt(_)
BigToInt(a) == IF a = <<>> THEN 0 ELSE Head(a) + Base * BigToInt(Tail(a))

BigHead(a) == IF a = <<>> THEN 0 ELSE Head(a)
BigTail(a) == IF a = <<>> THEN <<>> ELSE Tail(a)

RECURSIVE BigAddC(_, _, _)
BigAddC(a, b, c) ==
    IF a = <<>> /\ b = <<>> THEN (IF c = 0 THEN <<>> ELSE <<c>>)
    ELSE LET x == BigHead(a) + BigHead(b) + c
         IN  <<x % Base>> \o BigAddC(BigTail(a), BigTail(b), x \div Base)

BigAdd(a, b) == BigAddC(a, b, 0)

\* a - b - c for a >= b + c
RECURSIVE BigSubB(_, _, _)
BigSubB(a, b, c) ==
    IF a = <<>> THEN <<>>
    ELSE LET x == Head(a) - BigHead(b) - c
         IN  IF x < 0 THEN <<x + Base>> \o BigSubB(Tail(a), BigTail(b), 1)
                      ELSE <<x>> \o BigSubB(Tail(a), BigTail(b), 0)

BigSub(a, b) == BigTrim(BigSubB(a, b, 0))

\* -1, 0, 1 as a < b, a = b, a > b
RECURSIVE BigCmpFrom(_, _, _)
BigCmpFrom(a, b, i) ==
    IF i = 0 THEN 0
    ELSE IF a[i] < b[i] THEN -1
    ELSE IF a[i] > b[i] THEN 1
    ELSE BigCmpFrom(a, b, i - 1)

BigCmp(a, b) ==
    IF Len(a) < Len(b) THEN -1
    ELSE IF Len(a) > Len(b) THEN 1
    ELSE BigCmpFrom(a, b, Len(a))

\* a * n + c for 0 <= n, c < Base
RECURSIVE BigMulSmall(_, _, _)
BigMulSmall(a, n, c) ==
    IF a = <<>> THEN (IF c = 0 THEN <<>> ELSE <<c>>)
    ELSE LET x == Head(a) * n + c
         IN  <<x % Base>> \o BigMulSmall(Tail(a), n, x \div Base)

RECURSIVE BigMul(_, _)
BigMul(a, b) ==
    IF a = <<>> \/ b = <<>> THEN <<>>
    ELSE BigAdd(BigTrim(BigMulSmall(a, Head(b), 0)),
                IF Tail(b) = <<>> THEN <<>> ELSE <<0>> \o BigMul(a, Tail(b)))

\* one digit of the division by a limb: cur = remainder * Base + digit
BigDivSmallPut(q, cur, n) == [q |-> <<cur \div n>> \o q, r |-> cur % n]

BigDivSmallStep(hi, digit, n) == BigDivSmallPut(hi.q, hi.r * Base + digit, n)

\* quotient and remainder of a by a single limb n, 0 < n < Base
RECURSIVE BigDivSmallRec(_, _)
BigDivSmallRec(a, n) ==
    IF a = <<>> THEN [q |-> <<>>, r |-> 0]
    ELSE BigDivSmallStep(BigDivSmallRec(Tail(a), n), Head(a), n)

BigDivTrim(d) == [q |-> BigTrim(d.q), r |-> d.r]

BigDivSmall(a, n) == BigDivTrim(BigDivSmallRec(a, n))

RECURSIVE ZeroLimbs(_)
ZeroLimbs(k) == IF k = 0 THEN <<>> ELSE <<0>> \o ZeroLimbs(k - 1)

\* a * 2^k
BigShl(a, k) ==
    IF a = <<>> THEN <<>>
    ELSE ZeroLimbs(k \div LimbBits) \o BigMulSmall(a, Pow2(k % LimbBits), 0)

\* floor(a / 2^k)
BigShr(a, k) ==
    LET drop == k \div LimbBits
    IN  IF drop >= Len(a) THEN <<>>
        ELSE BigDivSmall(SubSeq(a, drop + 1, Len(a)), Pow2(k % LimbBits)).q

BigBitLen(a) ==
    IF a = <<>> THEN 0 ELSE LimbBits * (Len(a) - 1) + IntBitLen(a[Len(a)])

BigIsOdd(a) == a # <<>> /\ Head(a) % 2 = 1

\* The largest digit d <= guess with b * d <= r
RECURSIVE BigDivDigit(_, _, _)
BigDivDigit(r, b, guess) ==
    IF BigCmp(BigTrim(BigMulSmall(b, guess, 0)), r) > 0
    THEN BigDivDigit(r, b, guess - 1)
    ELSE guess

\* the two leading limbs of r1 over an n-limb divisor
BigDivTop(r1, n) ==
    (IF Len(r1) > n THEN r1[n + 1] ELSE 0) * Base
    + (IF Len(r1) >= n THEN r1[n] ELSE 0)

BigDivAppend(rest, digit) == [q |-> rest.q \o <<digit>>, r |-> rest.r]

\* Schoolbook long division of the limbs a[1..i] by b, most significant limb
\* first, with r < b the remainder so far.  The top limb of b is at least
\* Base / 2, so the guess from the leading limbs is at most 2 too large.
RECURSIVE BigDivLimbs(_, _, _, _)
BigDivPut(a, b, i, r1, digit) ==
    BigDivAppend(BigDivLimbs(a, b, i - 1,
                     BigSub(r1, BigTrim(BigMulSmall(b, digit, 0)))),
                 digit)

BigDivStep(a, b, i, r1) ==
    BigDivPut(a, b, i, r1,
        BigDivDigit(r1, b,
            IntMin(Base - 1, BigDivTop(r1, Len(b)) \div b[Len(b)])))

BigDivLimbs(a, b, i, r) ==
    IF i = 0 THEN [q |-> <<>>, r |-> r]
    ELSE BigDivStep(a, b, i,
             IF r = <<>> /\ a[i] = 0 THEN <<>> ELSE <<a[i]>> \o r)

BigDivOne(d) == [q |-> d.q, r |-> BigFromInt(d.r)]

BigDivFrom(a2, b2) == BigDivLimbs(a2, b2, Len(a2), <<>>)

BigDivDenorm(d, k) == [q |-> BigTrim(d.q), r |-> BigShr(d.r, k)]

\* the division after both operands are shifted left by k bits, which makes
\* the top limb of the divisor at least Base / 2
BigDivNorm(a, b, k) == BigDivDenorm(BigDivFrom(BigShl(a, k), BigShl(b, k)), k)

\* quotient and remainder of a by b, b # 0
BigDivMod(a, b) ==
    IF Len(b) = 1 THEN BigDivOne(BigDivSmall(a, b[1]))
    ELSE BigDivNorm(a, b, LimbBits - IntBitLen(b[Len(b)]))

(***************************************************************************)
(* IEEE-754 binary64, finite and non-negative: the value m * 2^e with m    *)
(* odd (or m = <<>>, e = 0 for zero), m < 2^53.  The form is canonical, so *)
(* two doubles are equal exactly when their records are.                   *)
(***************************************************************************)
Precision == 53

\* the number of trailing zero bits of n > 0
RECURSIVE IntTrailingZeros(_)
IntTrailingZeros(n) == IF n % 2 = 1 THEN 0 ELSE 1 + IntTrailingZeros(n \div 2)

\* m * 2^e without the z trailing zero bits of m
FStripBits(m, e, z) ==
    IF z = 0 THEN [m |-> m, e |-> e]
    ELSE [m |-> BigDivSmall(m, Pow2(z)).q, e |-> e + z]

\* the canonical form of m * 2^e
RECURSIVE FStrip(_, _)
FStrip(m, e) ==
    IF m = <<>> THEN [m |-> <<>>, e |-> 0]
    ELSE IF Head(m) = 0 THEN FStrip(Tail(m), e + LimbBits)
    ELSE FStripBits(m, e, IntTrailingZeros(Head(m)))

\* q * 2^e rounded up or not: c compares the part cut off with one half
FRoundUp(q, e, c, sticky) ==
    FStrip(IF c > 0 \/ (c = 0 /\ (sticky \/ BigIsOdd(q)))
           THEN BigAdd(q, <<1>>) ELSE q, e)

\* m with its k low bits cut off, q = floor(m / 2^k)
FRoundCut(m, e, sticky, k, q) ==
    FRoundUp(q, e + k,
             BigCmp(BigSub(m, BigShl(q, k)), BigShl(<<1>>, k - 1)), sticky)

FRoundBits(m, e, sticky, l) ==
    IF l <= Precision THEN FStrip(m, e)
    ELSE FRoundCut(m, e, sticky, l - Precision, BigShr(m, l - Precision))

\* The double nearest to (m + d) * 2^e, 0 <= d < 1, d > 0 iff sticky; ties
\* go to the even mantissa.  With sticky set m has more than 53 bits.
FRound(m, e, sticky) == FRoundBits(m, e, sticky, BigBitLen(m))

FInt(n) == FStrip(BigFromInt(n), 0)

FIsInt(x) == x.e >= 0

FMul(x, y) == FRound(BigMul(x.m, y.m), x.e + y.e, FALSE)

FDivRound(d, e) == FRound(d.q, e, d.r # <<>>)

\* x / y with the mantissa of x shifted left by s bits, which leaves a
\* quotient of at least 55 bits
FDivScaled(x, y, s) ==
    FDivRound(BigDivMod(BigShl(x.m, s), y.m), x.e - s - y.e)

FDiv(x, y) ==
    IF x.m = <<>> THEN x
    ELSE FDivScaled(x, y,
             IntMax(0, Precision + 2 + BigBitLen(y.m) - BigBitLen(x.m)))

FMinExp(x, y) == IF x.e < y.e THEN x.e ELSE y.e

\* the mantissa of x at the exponent e <= x.e
FAligned(x, e) == BigShl(x.m, x.e - e)

FAdd(x, y) ==
    FRound(BigAdd(FAligned(x, FMinExp(x, y)), FAligned(y, FMinExp(x, y))),
           FMinExp(x, y), FALSE)

\* -1, 0, 1 as x < y, x = y, x > y
FCmp(x, y) ==
    BigCmp(FAligned(x, FMinExp(x, y)), FAligned(y, FMinExp(x, y)))

FGe(x, y) == FCmp(x, y) >= 0
FLe(x, y) == FCmp(x, y) <= 0
FGt(x, y) == FCmp(x, y) > 0
FLt(x, y) == FCmp(x, y) < 0

\* x - y for x >= y (every subtraction of the program whose result is used)
FSub(x, y) ==
    FRound(BigSub(FAligned(x, FMinExp(x, y)), FAligned(y, FMinExp(x, y))),
           FMinExp(x, y), FALSE)

FMin(x, y) == IF FLe(x, y) THEN x ELSE y
FMax(x, y) == IF FGe(x, y) THEN x ELSE y

\* Math.floor, Math.ceil, Math.round (half up) to an integer
MathFloor(x) ==
    IF x.e >= 0 THEN BigToInt(BigShl(x.m, x.e)) ELSE BigToInt(BigShr(x.m, -x.e))

MathCeil(x) == MathFloor(x) + (IF x.e >= 0 THEN 0 ELSE 1)

\* MathRound rounding down
MathRoundDown(x) == MathFloor(x)

MathRound(x) ==
    IF x.e >= 0 THEN MathFloor(x)
    ELSE (BigToInt(BigShr(x.m, -x.e - 1)) + 1) \div 2

\* a decimal literal num/den of the source, as the double the parser makes
Lit(num, den) == FDiv(FInt(num), FInt(den))

(***************************************************************************)
(* Constants (types.ts 136-166)                                            *)
(***************************************************************************)
intensityLevels == <<"light", "moderate", "intensive", "very_intensive">>

WEEKLY_IMPROVEMENT_RATES ==
    [light |-> 8, moderate |-> 15, intensive |-> 22, very_intensive |-> 30]

MAX_IMPROVEMENTS ==
    [light |-> 150, moderate |-> 250, intensive |-> 350, very_intensive |-> 450]

WEEKLY_HOURS ==
    [light |-> FInt(3), moderate |-> Lit(65, 10),
     intensive |-> Lit(105, 10), very_intensive |-> Lit(165, 10)]

TUTORING_MULTIPLIERS ==
    <<Lit(120, 100), Lit(130, 100), Lit(135, 100), Lit(140, 100)>>

TUTORING_SESSION_DURATION == 60

(***************************************************************************)
(* calculateTimeline.  The test date is given as its distance in days from *)
(* today, both normalised to midnight; Math.ceil makes it a whole number.  *)
(***************************************************************************)
\* calculateTimeline without the reserved week
calculateTimelineNoRest(testDate) ==
    LET totalDays      == testDate
        totalWeeks     == MathFloor(FDiv(FInt(totalDays), FInt(7)))
        effectiveWeeks == IntMax(1, totalWeeks)
    IN  [startDate |-> 0, testDate |-> testDate, totalDays |-> totalDays,
         totalWeeks |-> totalWeeks, effectiveWeeks |-> effectiveWeeks]

calculateTimeline(testDate) ==
    LET totalDays      == testDate
        totalWeeks     == MathFloor(FDiv(FInt(totalDays), FInt(7)))
        effectiveWeeks == IntMax(1, totalWeeks - 1)
    IN  [startDate |-> 0, testDate |-> testDate, totalDays |-> totalDays,
         totalWeeks |-> totalWeeks, effectiveWeeks |-> effectiveWeeks]

(***************************************************************************)
(* calculateScoreGap                                                       *)
(***************************************************************************)
\* calculateScoreGap with the "significant" bucket reaching up to 300
calculateScoreGapWide(currentScore, targetScore) ==
    LET totalGap == IntMax(0, targetScore - currentScore)
        difficulty ==
            IF totalGap <= 100 THEN "small"
            ELSE IF totalGap <= 150 THEN "moderate"
            ELSE IF totalGap <= 300 THEN "significant"
            ELSE IF totalGap <= 350 THEN "large"
            ELSE "very_large"
    IN  [totalGap |-> totalGap, isAchievable |-> totalGap <= 500,
         difficulty |-> difficulty]

\* calculateScoreGap with `<` for `<=`
calculateScoreGapStrict(currentScore, targetScore) ==
    LET totalGap == IntMax(0, targetScore - currentScore)
        difficulty ==
            IF totalGap < 100 THEN "small"
            ELSE IF totalGap < 150 THEN "moderate"
            ELSE IF totalGap < 250 THEN "significant"
            ELSE IF totalGap < 350 THEN "large"
            ELSE "very_large"
    IN  [totalGap |-> totalGap, isAchievable |-> totalGap < 500,
         difficulty |-> difficulty]

calculateScoreGap(currentScore, targetScore) ==
    LET totalGap == IntMax(0, targetScore - currentScore)
        difficulty ==
            IF totalGap <= 100 THEN "small"
            ELSE IF totalGap <= 150 THEN "moderate"
            ELSE IF totalGap <= 250 THEN "significant"
            ELSE IF totalGap <= 350 THEN "large"
            ELSE "very_large"
    IN  [totalGap |-> totalGap, isAchievable |-> totalGap <= 500,
         difficulty |-> difficulty]

(***************************************************************************)
(* assessFeasibility                                                       *)
(***************************************************************************)
IndexOf(seq, x) == CHOOSE i \in DOMAIN seq : seq[i] = x

\* Math.min(weeks * rate * multiplier, cap * multiplier), left to right
Projection(weeks, rate, cap, multiplier) ==
    FMin(FMul(FInt(weeks), FMul(FInt(rate), multiplier)),
         FMul(FInt(cap), multiplier))

\* the for loop of lines 282-304: the first tier from index i on whose
\* projection meets the gap gives the one increase_intensity entry
RECURSIVE IncreaseIntensity(_, _, _, _, _)
IncreaseIntensity(i, weeks, gap, tutoringMultiplier, projectedImprovement) ==
    IF i > Len(intensityLevels) THEN <<>>
    ELSE LET newIntensity  == intensityLevels[i]
             newProjection == Projection(weeks,
                                  WEEKLY_IMPROVEMENT_RATES[newIntensity],
                                  MAX_IMPROVEMENTS[newIntensity],
                                  tutoringMultiplier)
         IN  IF FGe(newProjection, FInt(gap))
             THEN <<[type |-> "increase_intensity", priority |-> "high",
                     impact |-> FSub(newProjection, projectedImprovement),
                     details |-> [newIntensity |-> newIntensity,
                                  projectedImprovement |-> newProjection]]>>
             ELSE IncreaseIntensity(i + 1, weeks, gap, tutoringMultiplier,
                                    projectedImprovement)

\* lines 306-325
AddTutoring(weeks, gap, intensity, tutoringSessionsPerWeek, projectedImprovement) ==
    IF tutoringSessionsPerWeek < 4 THEN
        LET higherTutoring   == IntMin(4, tutoringSessionsPerWeek + 1)
            higherMultiplier == TUTORING_MULTIPLIERS[higherTutoring]
            withMoreTutoring ==
                FMin(FMul(FMul(FInt(weeks),
                               FInt(WEEKLY_IMPROVEMENT_RATES[intensity])),
                          higherMultiplier),
                     FMul(FInt(MAX_IMPROVEMENTS[intensity]), higherMultiplier))
        IN  IF FGe(withMoreTutoring, FInt(gap))
            THEN <<[type |-> "add_tutoring", priority |-> "high",
                    impact |-> FSub(withMoreTutoring, projectedImprovement),
                    details |-> [currentSessions |-> tutoringSessionsPerWeek,
                                 recommendedSessions |-> higherTutoring,
                                 projectedWithMoreTutoring |-> withMoreTutoring]]>>
            ELSE <<>>
    ELSE <<>>

PlaceholderCurrentScore == 1000

\* FeasibleConfidence without Math.min(95, ...)
FeasibleConfidenceUncapped(gap, buffer) ==
    IF gap > 0
    THEN FAdd(FInt(60), FMul(FDiv(buffer, FInt(gap)), FInt(35)))
    ELSE FInt(95)

\* FeasibleConfidence with 60 for a gap of zero
FeasibleConfidenceFloor(gap, buffer) ==
    IF gap > 0
    THEN FMin(FInt(95),
              FAdd(FInt(60), FMul(FDiv(buffer, FInt(gap)), FInt(35))))
    ELSE FInt(60)

\* line 264
FeasibleConfidence(gap, buffer) ==
    IF gap > 0
    THEN FMin(FInt(95),
              FAdd(FInt(60), FMul(FDiv(buffer, FInt(gap)), FInt(35))))
    ELSE FInt(95)

\* line 276, Math.max(20, 60 - shortfall / 10): the difference is below 20
\* exactly when shortfall / 10 is above 40
InfeasibleConfidence(shortfall) ==
    LET tenth == FDiv(shortfall, FInt(10))
    IN  IF FLe(tenth, FInt(40)) THEN FSub(FInt(60), tenth) ELSE FInt(20)

\* ExtendTimeline with Math.round for Math.ceil
ExtendTimelineRound(shortfall, weeklyRate) ==
    LET additionalWeeksNeeded == MathRound(FDiv(shortfall, weeklyRate))
    IN  [type |-> "extend_timeline", priority |-> "medium",
         impact |-> shortfall,
         details |-> [additionalWeeks |-> additionalWeeksNeeded]]

\* ExtendTimeline with Math.floor for Math.ceil
ExtendTimelineFloor(shortfall, weeklyRate) ==
    LET additionalWeeksNeeded == MathFloor(FDiv(shortfall, weeklyRate))
    IN  [type |-> "extend_timeline", priority |-> "medium",
         impact |-> shortfall,
         details |-> [additionalWeeks |-> additionalWeeksNeeded]]

\* lines 327-346
ExtendTimeline(shortfall, weeklyRate) ==
    LET additionalWeeksNeeded == MathCeil(FDiv(shortfall, weeklyRate))
    IN  [type |-> "extend_timeline", priority |-> "medium",
         impact |-> shortfall,
         details |-> [additionalWeeks |-> additionalWeeksNeeded]]

AdjustTarget(shortfall, projectedImprovement) ==
    LET currentScore    == PlaceholderCurrentScore
        achievableScore ==
            MathRound(FDiv(FAdd(projectedImprovement, FInt(currentScore)),
                           FInt(10))) * 10
    IN  [type |-> "adjust_target", priority |-> "low", impact |-> shortfall,
         details |-> [achievableScore |-> achievableScore]]

\* assessFeasibility with `projectedImprovement > gap`
assessFeasibilityStrict(timeline, scoreGap, intensity, tutoringSessionsPerWeek) ==
    LET weeks == timeline.effectiveWeeks
        gap   == scoreGap.totalGap
        baseWeeklyRate     == WEEKLY_IMPROVEMENT_RATES[intensity]
        baseMaxImprovement == MAX_IMPROVEMENTS[intensity]
        tutoringMultiplier == TUTORING_MULTIPLIERS[tutoringSessionsPerWeek]
        weeklyRate     == FMul(FInt(baseWeeklyRate), tutoringMultiplier)
        maxImprovement == FMul(FInt(baseMaxImprovement), tutoringMultiplier)
        rawProjection  == FMul(FInt(weeks), weeklyRate)
        projectedImprovement == FMin(rawProjection, maxImprovement)
    IN  IF FGt(projectedImprovement, FInt(gap)) THEN
            LET buffer == FSub(projectedImprovement, FInt(gap))
            IN  [isFeasible |-> TRUE,
                 confidence |-> MathRound(FeasibleConfidence(gap, buffer)),
                 projectedImprovement |-> projectedImprovement,
                 recommendations |-> <<>>]
        ELSE
            LET shortfall  == FSub(FInt(gap), projectedImprovement)
                currentIdx == IndexOf(intensityLevels, intensity)
            IN  [isFeasible |-> FALSE,
                 confidence |-> MathRound(InfeasibleConfidence(shortfall)),
                 projectedImprovement |-> projectedImprovement,
                 shortfall |-> shortfall,
                 recommendations |->
                     IncreaseIntensity(currentIdx + 1, weeks, gap,
                                       tutoringMultiplier, projectedImprovement)
                     \o AddTutoring(weeks, gap, intensity,
                                    tutoringSessionsPerWeek, projectedImprovement)
                     \o <<ExtendTimeline(shortfall, weeklyRate),
                          AdjustTarget(shortfall, projectedImprovement)>>]

\* assessFeasibility without Math.min(rawProjection, maxImprovement)
assessFeasibilityUncapped(timeline, scoreGap, intensity, tutoringSessionsPerWeek) ==
    LET weeks == timeline.effectiveWeeks
        gap   == scoreGap.totalGap
        baseWeeklyRate     == WEEKLY_IMPROVEMENT_RATES[intensity]
        baseMaxImprovement == MAX_IMPROVEMENTS[intensity]
        tutoringMultiplier == TUTORING_MULTIPLIERS[tutoringSessionsPerWeek]
        weeklyRate     == FMul(FInt(baseWeeklyRate), tutoringMultiplier)
        maxImprovement == FMul(FInt(baseMaxImprovement), tutoringMultiplier)
        rawProjection  == FMul(FInt(weeks), weeklyRate)
        projectedImprovement == rawProjection
    IN  IF FGe(projectedImprovement, FInt(gap)) THEN
            LET buffer == FSub(projectedImprovement, FInt(gap))
            IN  [isFeasible |-> TRUE,
                 confidence |-> MathRound(FeasibleConfidence(gap, buffer)),
                 projectedImprovement |-> projectedImprovement,
                 recommendations |-> <<>>]
        ELSE
            LET shortfall  == FSub(FInt(gap), projectedImprovement)
                currentIdx == IndexOf(intensityLevels, intensity)
            IN  [isFeasible |-> FALSE,
                 confidence |-> MathRound(InfeasibleConfidence(shortfall)),
                 projectedImprovement |-> projectedImprovement,
                 shortfall |-> shortfall,
                 recommendations |->
                     IncreaseIntensity(currentIdx + 1, weeks, gap,
                                       tutoringMultiplier, projectedImprovement)
                     \o AddTutoring(weeks, gap, intensity,
                                    tutoringSessionsPerWeek, projectedImprovement)
                     \o <<ExtendTimeline(shortfall, weeklyRate),
                          AdjustTarget(shortfall, projectedImprovement)>>]

assessFeasibility(timeline, scoreGap, intensity, tutoringSessionsPerWeek) ==
    LET weeks == timeline.effectiveWeeks
        gap   == scoreGap.totalGap
        baseWeeklyRate     == WEEKLY_IMPROVEMENT_RATES[intensity]
        baseMaxImprovement == MAX_IMPROVEMENTS[intensity]
        tutoringMultiplier == TUTORING_MULTIPLIERS[tutoringSessionsPerWeek]
        weeklyRate     == FMul(FInt(baseWeeklyRate), tutoringMultiplier)
        maxImprovement == FMul(FInt(baseMaxImprovement), tutoringMultiplier)
        rawProjection  == FMul(FInt(weeks), weeklyRate)
        projectedImprovement == FMin(rawProjection, maxImprovement)
    IN  IF FGe(projectedImprovement, FInt(gap)) THEN
            LET buffer == FSub(projectedImprovement, FInt(gap))
            IN  [isFeasible |-> TRUE,
                 confidence |-> MathRound(FeasibleConfidence(gap, buffer)),
                 projectedImprovement |-> projectedImprovement,
                 recommendations |-> <<>>]
        ELSE
            LET shortfall  == FSub(FInt(gap), projectedImprovement)
                currentIdx == IndexOf(intensityLevels, intensity)
            IN  [isFeasible |-> FALSE,
                 confidence |-> MathRound(InfeasibleConfidence(shortfall)),
                 projectedImprovement |-> projectedImprovement,
                 shortfall |-> shortfall,
                 recommendations |->
                     IncreaseIntensity(currentIdx + 1, weeks, gap,
                                       tutoringMultiplier, projectedImprovement)
                     \o AddTutoring(weeks, gap, intensity,
                                    tutoringSessionsPerWeek, projectedImprovement)
                     \o <<ExtendTimeline(shortfall, weeklyRate),
                          AdjustTarget(shortfall, projectedImprovement)>>]

(***************************************************************************)
(* selectPlanType                                                          *)
(***************************************************************************)
\* selectPlanType with `<` for `<=`
selectPlanTypeStrict(weeks) ==
    IF weeks < 4 THEN "cram"
    ELSE IF weeks < 8 THEN "short"
    ELSE IF weeks < 16 THEN "standard"
    ELSE IF weeks < 32 THEN "extended"
    ELSE "long_term"

selectPlanType(weeks) ==
    IF weeks <= 4 THEN "cram"
    ELSE IF weeks <= 8 THEN "short"
    ELSE IF weeks <= 16 THEN "standard"
    ELSE IF weeks <= 32 THEN "extended"
    ELSE "long_term"

(***************************************************************************)
(* recommendIntensity                                                      *)
(***************************************************************************)
\* recommendIntensity with `<` for `<=`
recommendIntensityStrict(weeks, scoreGap, tutoringSessionsPerWeek) ==
    LET tutoringMultiplier  == TUTORING_MULTIPLIERS[tutoringSessionsPerWeek]
        requiredWeeklyGain  == FDiv(FInt(scoreGap), FInt(weeks))
        effectiveGainNeeded == FDiv(requiredWeeklyGain, tutoringMultiplier)
    IN  IF FLt(effectiveGainNeeded, FInt(8))
        THEN [intensity |-> "light", weeklyHours |-> WEEKLY_HOURS.light]
        ELSE IF FLt(effectiveGainNeeded, FInt(15))
        THEN [intensity |-> "moderate", weeklyHours |-> WEEKLY_HOURS.moderate]
        ELSE IF FLt(effectiveGainNeeded, FInt(22))
        THEN [intensity |-> "intensive", weeklyHours |-> WEEKLY_HOURS.intensive]
        ELSE [intensity |-> "very_intensive",
              weeklyHours |-> WEEKLY_HOURS.very_intensive]

recommendIntensity(weeks, scoreGap, tutoringSessionsPerWeek) ==
    LET tutoringMultiplier  == TUTORING_MULTIPLIERS[tutoringSessionsPerWeek]
        requiredWeeklyGain  == FDiv(FInt(scoreGap), FInt(weeks))
        effectiveGainNeeded == FDiv(requiredWeeklyGain, tutoringMultiplier)
    IN  IF FLe(effectiveGainNeeded, FInt(8))
        THEN [intensity |-> "light", weeklyHours |-> WEEKLY_HOURS.light]
        ELSE IF FLe(effectiveGainNeeded, FInt(15))
        THEN [intensity |-> "moderate", weeklyHours |-> WEEKLY_HOURS.moderate]
        ELSE IF FLe(effectiveGainNeeded, FInt(22))
        THEN [intensity |-> "intensive", weeklyHours |-> WEEKLY_HOURS.intensive]
        ELSE [intensity |-> "very_intensive",
              weeklyHours |-> WEEKLY_HOURS.very_intensive]

(***************************************************************************)
(* generatePhases and its five templates                                   *)
(***************************************************************************)
\* Dist without the review share
DistNoReview(l, p, t, r) ==
    [learning |-> l, practice |-> p, testing |-> t, review |-> 0]

Dist(l, p, t, r) == [learning |-> l, practice |-> p, testing |-> t, review |-> r]

Phase(name, startWeek, endWeek, focus, objectives, weeklyHours, dist) ==
    [name |-> name, startWeek |-> startWeek, endWeek |-> endWeek,
     focus |-> focus, objectives |-> objectives, weeklyHours |-> weeklyHours,
     contentDistribution |-> dist]

\* Math.floor(weeks * f) and Math.ceil(weeks * f) for a literal f
FloorMul(weeks, f) == MathFloor(FMul(FInt(weeks), f))
CeilMul(weeks, f) == MathCeil(FMul(FInt(weeks), f))

\* a || b on numbers: b when a is 0
OrElse(a, b) == IF a = 0 THEN b ELSE a

\* generateCramPhases with the second phase of the longer variant starting at
\* the midpoint itself, not the week after it
generateCramPhasesOverlap(weeks) ==
    IF weeks <= 2 THEN
        << Phase("Diagnostic + High-Impact Strategies", 1, 1,
                 "Identify weaknesses and learn key strategies",
                 <<"Complete full diagnostic test", "Learn top 5 math rules",
                   "Learn top 5 R&W rules", "Master elimination technique">>,
                 15, Dist(40, 30, 20, 10)),
           Phase("Intensive Practice + Final Prep", 2, weeks,
                 "Targeted practice and test simulation",
                 <<"Complete 1 full practice test", "Focus on top 3 weak areas",
                   "Pacing drills", "Light review before test day">>,
                 12, Dist(20, 40, 30, 10)) >>
    ELSE
        << Phase("Assessment + Foundation", 1, MathCeil(FDiv(FInt(weeks), FInt(2))),
                 "Diagnostic and core content mastery",
                 <<"Complete diagnostic test", "Master foundational math concepts",
                   "Master grammar rules", "Learn SAT strategies">>,
                 12, Dist(40, 30, 15, 15)),
           Phase("Polish + Peak", MathCeil(FDiv(FInt(weeks), FInt(2))), weeks,
                 "Practice tests and final preparation",
                 <<"Complete 2 full practice tests", "Target weak areas",
                   "Time management mastery", "Pre-test preparation">>,
                 10, Dist(15, 35, 40, 10)) >>

generateCramPhases(weeks) ==
    IF weeks <= 2 THEN
        << Phase("Diagnostic + High-Impact Strategies", 1, 1,
                 "Identify weaknesses and learn key strategies",
                 <<"Complete full diagnostic test", "Learn top 5 math rules",
                   "Learn top 5 R&W rules", "Master elimination technique">>,
                 15, Dist(40, 30, 20, 10)),
           Phase("Intensive Practice + Final Prep", 2, weeks,
                 "Targeted practice and test simulation",
                 <<"Complete 1 full practice test", "Focus on top 3 weak areas",
                   "Pacing drills", "Light review before test day">>,
                 12, Dist(20, 40, 30, 10)) >>
    ELSE
        << Phase("Assessment + Foundation", 1, MathCeil(FDiv(FInt(weeks), FInt(2))),
                 "Diagnostic and core content mastery",
                 <<"Complete diagnostic test", "Master foundational math concepts",
                   "Master grammar rules", "Learn SAT strategies">>,
                 12, Dist(40, 30, 15, 15)),
           Phase("Polish + Peak", MathCeil(FDiv(FInt(weeks), FInt(2))) + 1, weeks,
                 "Practice tests and final preparation",
                 <<"Complete 2 full practice tests", "Target weak areas",
                   "Time management mastery", "Pre-test preparation">>,
                 10, Dist(15, 35, 40, 10)) >>

generateShortPhases(weeks) ==
    LET phase1End == FloorMul(weeks, Lit(3, 10))
        phase2End == FloorMul(weeks, Lit(6, 10))
        phase3End == FloorMul(weeks, Lit(85, 100))
    IN  << Phase("Foundation", 1, OrElse(phase1End, 1),
                 "Diagnosis and core content",
                 <<"Complete full diagnostic test", "Master algebra basics",
                   "Master grammar fundamentals",
                   "Build reading comprehension strategies">>,
                 10, Dist(40, 30, 15, 15)),
           Phase("Building", OrElse(phase1End, 1) + 1, OrElse(phase2End, 3),
                 "Skill development",
                 <<"Intermediate math topics", "Advanced grammar",
                   "Evidence-based reading", "Strategy application">>,
                 12, Dist(30, 40, 15, 15)),
           Phase("Practice", OrElse(phase2End, 3) + 1, OrElse(phase3End, weeks - 1),
                 "Application and testing",
                 <<"Full practice tests", "Error analysis", "Pacing drills",
                   "Weak area targeting">>,
                 12, Dist(20, 40, 30, 10)),
           Phase("Peak", OrElse(phase3End, weeks - 1) + 1, weeks,
                 "Final preparation",
                 <<"Light review", "Final practice test", "Confidence building",
                   "Rest before test day">>,
                 8, Dist(10, 30, 40, 20)) >>

generateStandardPhases(weeks) ==
    << Phase("Assessment", 1, 1,
             "Comprehensive diagnostic and planning",
             <<"Full proctored diagnostic test", "Detailed score analysis",
               "Learning style assessment", "Goal setting">>,
             8, Dist(20, 20, 50, 10)),
       Phase("Foundation", 2, CeilMul(weeks, Lit(25, 100)),
             "Core content mastery",
             <<"Algebra fundamentals", "Grammar rules review",
               "Reading comprehension basics", "Question type identification">>,
             10, Dist(40, 35, 10, 15)),
       Phase("Development", CeilMul(weeks, Lit(25, 100)) + 1,
             CeilMul(weeks, Lit(55, 100)),
             "Full content coverage",
             <<"Advanced math topics", "Complex passages",
               "Rhetoric and synthesis", "Strategy development">>,
             12, Dist(35, 40, 15, 10)),
       Phase("Strategy", CeilMul(weeks, Lit(55, 100)) + 1,
             CeilMul(weeks, Lit(80, 100)),
             "Strategy and application",
             <<"Test-taking strategies", "Time management",
               "Elimination techniques", "Calculator/Desmos mastery">>,
             12, Dist(25, 40, 25, 10)),
       Phase("Peak", CeilMul(weeks, Lit(80, 100)) + 1, weeks,
             "Testing and final prep",
             <<"Multiple full practice tests", "Error pattern analysis",
               "Confidence building", "Pre-test routine">>,
             10, Dist(10, 35, 45, 10)) >>

generateExtendedPhases(weeks) ==
    << Phase("Assessment & Foundation", 1, CeilMul(weeks, Lit(15, 100)),
             "Comprehensive diagnosis and foundation building",
             <<"Full diagnostic testing", "Learning style determination",
               "Core Math: Numbers, Algebra I",
               "Core R&W: Grammar, Basic Reading">>,
             8, Dist(45, 30, 15, 10)),
       Phase("Core Skill Building", CeilMul(weeks, Lit(15, 100)) + 1,
             CeilMul(weeks, Lit(35, 100)),
             "Content breadth",
             <<"Math: Algebra II, Geometry Basics",
               "R&W: Evidence, Inference, Structure",
               "Strategy: Basic elimination", "Regular practice tests">>,
             10, Dist(35, 40, 15, 10)),
       Phase("Intermediate Mastery", CeilMul(weeks, Lit(35, 100)) + 1,
             CeilMul(weeks, Lit(55, 100)),
             "Content depth",
             <<"Advanced Algebra, Geometry", "Rhetoric, Complex Passages",
               "Pacing, Bookmarking", "Full practice tests">>,
             12, Dist(30, 40, 20, 10)),
       Phase("Advanced Content", CeilMul(weeks, Lit(55, 100)) + 1,
             CeilMul(weeks, Lit(75, 100)),
             "Complete coverage",
             <<"Trigonometry, Advanced Functions", "Synthesis, Complex Grammar",
               "Desmos mastery", "Regular testing">>,
             12, Dist(25, 40, 25, 10)),
       Phase("Intensive Application", CeilMul(weeks, Lit(75, 100)) + 1,
             CeilMul(weeks, Lit(90, 100)),
             "Application and practice",
             <<"Mixed content review", "Heavy practice emphasis",
               "Error pattern remediation", "Multiple full tests">>,
             14, Dist(15, 45, 30, 10)),
       Phase("Peak Performance", CeilMul(weeks, Lit(90, 100)) + 1, weeks,
             "Peak readiness",
             <<"Strategic review", "High-frequency content focus",
               "Final practice tests", "Pre-test preparation">>,
             10, Dist(10, 30, 45, 15)) >>

generateLongTermPhases(weeks) ==
    LET quarterLength == MathFloor(FDiv(FInt(weeks), FInt(4)))
    IN  << Phase("Academic Foundation", 1, quarterLength,
                 "Fill academic gaps and build learning habits",
                 <<"Pre-algebra review if needed", "Basic grammar intensive",
                   "Reading fluency development", "Study skills training">>,
                 6, Dist(50, 30, 10, 10)),
           Phase("Core SAT Content", quarterLength + 1, quarterLength * 2,
                 "Complete SAT curriculum",
                 <<"All math domains", "All R&W domains",
                   "Strategy introduction", "Regular practice tests">>,
                 8, Dist(40, 35, 15, 10)),
           Phase("Advanced Mastery", quarterLength * 2 + 1, quarterLength * 3,
                 "Deep skill development",
                 <<"Advanced problems", "Strategy mastery", "Speed building",
                   "Frequent testing">>,
                 12, Dist(25, 40, 25, 10)),
           Phase("Peak Performance", quarterLength * 3 + 1, weeks,
                 "Test-day readiness",
                 <<"Intensive practice", "Simulated testing",
                   "Final content review", "Pre-test preparation">>,
                 14, Dist(10, 35, 45, 10)) >>

\* generatePhases taking the default branch for every plan type
generatePhasesDefault(planType, totalWeeks, scoreGap) ==
    generateStandardPhases(totalWeeks)

generatePhases(planType, totalWeeks, scoreGap) ==
    CASE planType = "cram"      -> generateCramPhases(totalWeeks)
      [] planType = "short"     -> generateShortPhases(totalWeeks)
      [] planType = "standard"  -> generateStandardPhases(totalWeeks)
      [] planType = "extended"  -> generateExtendedPhases(totalWeeks)
      [] planType = "long_term" -> generateLongTermPhases(totalWeeks)
      [] OTHER                  -> generateStandardPhases(totalWeeks)

(***************************************************************************)
(* generateWeeklyPlans and its helpers                                     *)
(***************************************************************************)
\* The words of every phase name the templates produce.  No keyword of
\* getTutoringFocusForPhase is a proper part of one of these words, so
\* String.includes(keyword) is: the keyword's words occur, adjacent and in
\* order, among the name's words.
PhaseNameWords ==
    [n \in {"Diagnostic + High-Impact Strategies",
            "Intensive Practice + Final Prep", "Assessment + Foundation",
            "Polish + Peak", "Foundation", "Building", "Practice", "Peak",
            "Assessment", "Development", "Strategy", "Assessment & Foundation",
            "Core Skill Building", "Intermediate Mastery", "Advanced Content",
            "Intensive Application", "Peak Performance", "Academic Foundation",
            "Core SAT Content", "Advanced Mastery"} |->
        CASE n = "Diagnostic + High-Impact Strategies" ->
                 <<"Diagnostic", "+", "High-Impact", "Strategies">>
          [] n = "Intensive Practice + Final Prep" ->
                 <<"Intensive", "Practice", "+", "Final", "Prep">>
          [] n = "Assessment + Foundation" -> <<"Assessment", "+", "Foundation">>
          [] n = "Polish + Peak" -> <<"Polish", "+", "Peak">>
          [] n = "Assessment & Foundation" -> <<"Assessment", "&", "Foundation">>
          [] n = "Core Skill Building" -> <<"Core", "Skill", "Building">>
          [] n = "Intermediate Mastery" -> <<"Intermediate", "Mastery">>
          [] n = "Advanced Content" -> <<"Advanced", "Content">>
          [] n = "Intensive Application" -> <<"Intensive", "Application">>
          [] n = "Peak Performance" -> <<"Peak", "Performance">>
          [] n = "Academic Foundation" -> <<"Academic", "Foundation">>
          [] n = "Core SAT Content" -> <<"Core", "SAT", "Content">>
          [] n = "Advanced Mastery" -> <<"Advanced", "Mastery">>
          [] OTHER -> <<n>>]

Includes(phaseName, keyword) ==
    LET w == PhaseNameWords[phaseName]
    IN  \E i \in 1..(Len(w) - Len(keyword) + 1) :
            SubSeq(w, i, i + Len(keyword) - 1) = keyword

getTutoringFocusForPhase(phaseName, weekNumber, totalWeeks) ==
    IF weekNumber = totalWeeks THEN
        [focus  |-> <<"Test-day preparation", "Confidence building">>,
         topics |-> <<"Review commonly missed problems",
                      "Test-day strategies and timing",
                      "Stress management techniques", "Final Q&A">>]
    ELSE IF weekNumber = 1 THEN
        [focus  |-> <<"Diagnostic review", "Goal setting">>,
         topics |-> <<"Review diagnostic results", "Identify priority skill gaps",
                      "Set weekly goals", "Establish study routine">>]
    ELSE IF Includes(phaseName, <<"Foundation">>)
            \/ Includes(phaseName, <<"Assessment">>) THEN
        [focus  |-> <<"Core concepts", "Foundation building">>,
         topics |-> <<"Algebra fundamentals", "Grammar rules mastery",
                      "Reading comprehension strategies",
                      "Question type identification">>]
    ELSE IF Includes(phaseName, <<"Skill", "Building">>)
            \/ Includes(phaseName, <<"Development">>) THEN
        [focus  |-> <<"Skill development", "Strategy introduction">>,
         topics |-> <<"Advanced algebra techniques", "Geometry problem solving",
                      "Evidence-based reading", "Rhetorical analysis">>]
    ELSE IF Includes(phaseName, <<"Mastery">>)
            \/ Includes(phaseName, <<"Advanced">>) THEN
        [focus  |-> <<"Advanced content", "Weak area targeting">>,
         topics |-> <<"Complex problem types", "Error pattern analysis",
                      "Pacing strategies", "Desmos calculator usage">>]
    ELSE IF Includes(phaseName, <<"Application">>)
            \/ Includes(phaseName, <<"Strategy">>) THEN
        [focus  |-> <<"Test strategies", "Practice test review">>,
         topics |-> <<"Practice test analysis", "Time management refinement",
                      "Elimination techniques", "High-yield content review">>]
    ELSE
        [focus  |-> <<"Final review", "Peak performance">>,
         topics |-> <<"High-frequency topics review",
                      "Quick wins identification", "Mental preparation",
                      "Test-day logistics">>]

\* Array.slice(from, to) for 0 <= from <= to
Slice(seq, from, to) == SubSeq(seq, from + 1, IntMin(to, Len(seq)))

\* TutoringSessionsFrom with `i < sessionsPerWeek`
RECURSIVE TutoringSessionsFromShort(_, _, _)
TutoringSessionsFromShort(i, sessionsPerWeek, phaseFocusAreas) ==
    IF i >= sessionsPerWeek THEN <<>>
    ELSE <<[sessionNumber |-> i, duration |-> TUTORING_SESSION_DURATION,
            focus |-> phaseFocusAreas.focus,
            suggestedTopics |->
                Slice(phaseFocusAreas.topics, (i - 1) * 2, i * 2)]>>
         \o TutoringSessionsFromShort(i + 1, sessionsPerWeek, phaseFocusAreas)

\* the for loop of lines 804-811, sessions i..sessionsPerWeek
RECURSIVE TutoringSessionsFrom(_, _, _)
TutoringSessionsFrom(i, sessionsPerWeek, phaseFocusAreas) ==
    IF i > sessionsPerWeek THEN <<>>
    ELSE <<[sessionNumber |-> i, duration |-> TUTORING_SESSION_DURATION,
            focus |-> phaseFocusAreas.focus,
            suggestedTopics |->
                Slice(phaseFocusAreas.topics, (i - 1) * 2, i * 2)]>>
         \o TutoringSessionsFrom(i + 1, sessionsPerWeek, phaseFocusAreas)

generateTutoringSessions(sessionsPerWeek, phase, weekNumber, totalWeeks) ==
    TutoringSessionsFrom(1, sessionsPerWeek,
        getTutoringFocusForPhase(phase.name, weekNumber, totalWeeks))

generateWeeklyFocus(phase, weekInPhase, totalPhaseWeeks) ==
    LET objectivesPerWeek ==
            MathCeil(FDiv(FInt(Len(phase.objectives)), FInt(totalPhaseWeeks)))
        startIdx == (weekInPhase - 1) * objectivesPerWeek
        endIdx   == IntMin(startIdx + objectivesPerWeek, Len(phase.objectives))
    IN  (IF weekInPhase = 1 THEN <<"Begin " \o phase.name \o " phase">> ELSE <<>>)
        \o Slice(phase.objectives, startIdx, endIdx)

\* Math.round(totalMinutes * pct / 100)
ActivityDuration(totalMinutes, pct) ==
    MathRound(FDiv(FInt(totalMinutes * pct), FInt(100)))

\* generateWeeklyActivities with the last-week test before the first-week one
generateWeeklyActivitiesLastFirst(phase, weekInPhase, absoluteWeek, totalWeeks) ==
    LET totalMinutes == phase.weeklyHours * 60
        d == phase.contentDistribution
    IN  (IF d.learning > 0
         THEN <<[type |-> "lesson", name |-> "Video Lessons & Content",
                 duration |-> ActivityDuration(totalMinutes, d.learning)]>>
         ELSE <<>>)
        \o (IF d.practice > 0
            THEN <<[type |-> "practice", name |-> "Practice Problems",
                    duration |-> ActivityDuration(totalMinutes, d.practice)]>>
            ELSE <<>>)
        \o (IF d.testing > 0
            THEN IF absoluteWeek = totalWeeks
                 THEN <<[type |-> "rest", name |-> "Final Preparation",
                         duration |-> ActivityDuration(totalMinutes, d.testing)]>>
                 ELSE IF absoluteWeek = 1
                 THEN <<[type |-> "diagnostic", name |-> "Diagnostic Test",
                         duration |-> ActivityDuration(totalMinutes, d.testing)]>>
                 ELSE <<[type |-> "test", name |-> "Practice Test / Section Tests",
                         duration |-> ActivityDuration(totalMinutes, d.testing)]>>
            ELSE <<>>)
        \o (IF d.review > 0
            THEN <<[type |-> "review", name |-> "Review & Flashcards",
                    duration |-> ActivityDuration(totalMinutes, d.review)]>>
            ELSE <<>>)

\* the activities' description strings are left out
generateWeeklyActivities(phase, weekInPhase, absoluteWeek, totalWeeks) ==
    LET totalMinutes == phase.weeklyHours * 60
        d == phase.contentDistribution
    IN  (IF d.learning > 0
         THEN <<[type |-> "lesson", name |-> "Video Lessons & Content",
                 duration |-> ActivityDuration(totalMinutes, d.learning)]>>
         ELSE <<>>)
        \o (IF d.practice > 0
            THEN <<[type |-> "practice", name |-> "Practice Problems",
                    duration |-> ActivityDuration(totalMinutes, d.practice)]>>
            ELSE <<>>)
        \o (IF d.testing > 0
            THEN IF absoluteWeek = 1
                 THEN <<[type |-> "diagnostic", name |-> "Diagnostic Test",
                         duration |-> ActivityDuration(totalMinutes, d.testing)]>>
                 ELSE IF absoluteWeek = totalWeeks
                 THEN <<[type |-> "rest", name |-> "Final Preparation",
                         duration |-> ActivityDuration(totalMinutes, d.testing)]>>
                 ELSE <<[type |-> "test", name |-> "Practice Test / Section Tests",
                         duration |-> ActivityDuration(totalMinutes, d.testing)]>>
            ELSE <<>>)
        \o (IF d.review > 0
            THEN <<[type |-> "review", name |-> "Review & Flashcards",
                    duration |-> ActivityDuration(totalMinutes, d.review)]>>
            ELSE <<>>)

\* FindPhase with `week > p.startWeek`
FindPhaseStrict(phases, week) ==
    LET owners == {i \in DOMAIN phases :
                      week > phases[i].startWeek /\ week <= phases[i].endWeek}
    IN  IF owners = {} THEN 0
        ELSE CHOOSE i \in owners : \A j \in owners : i <= j

\* phases.find(p => week >= p.startWeek && week <= p.endWeek): the index of
\* the first phase whose span holds the week, 0 when there is none
FindPhase(phases, week) ==
    LET owners == {i \in DOMAIN phases :
                      week >= phases[i].startWeek /\ week <= phases[i].endWeek}
    IN  IF owners = {} THEN 0
        ELSE CHOOSE i \in owners : \A j \in owners : i <= j

\* TutoringHours without the division by 60
TutoringHoursMinutes(tutoringSessionsPerWeek) ==
    FInt(tutoringSessionsPerWeek * TUTORING_SESSION_DURATION)

\* (tutoringSessionsPerWeek * TUTORING_SESSION_DURATION) / 60
TutoringHours(tutoringSessionsPerWeek) ==
    FDiv(FInt(tutoringSessionsPerWeek * TUTORING_SESSION_DURATION), FInt(60))

\* the body of the for loop of lines 761-788 for a week that has a phase
WeeklyPlan(phase, week, totalWeeks, tutoringSessionsPerWeek) ==
    LET weekInPhase     == week - phase.startWeek + 1
        totalPhaseWeeks == phase.endWeek - phase.startWeek + 1
        tutoringHours   == TutoringHours(tutoringSessionsPerWeek)
    IN  [weekNumber |-> week,
         phase |-> phase.name,
         focus |-> generateWeeklyFocus(phase, weekInPhase, totalPhaseWeeks),
         activities |->
             generateWeeklyActivities(phase, weekInPhase, week, totalWeeks),
         tutoringSessions |->
             generateTutoringSessions(tutoringSessionsPerWeek, phase, week,
                                      totalWeeks),
         targetHours |-> phase.weeklyHours,
         targetProblems |-> MathRound(FInt(phase.weeklyHours * 8)),
         totalHoursWithTutoring |-> FAdd(FInt(phase.weeklyHours), tutoringHours)]

\* the for loop of lines 761-788: the weeks 1..totalWeeks in order, a week
\* without an owning phase skipped (`continue`)
generateWeeklyPlans(phases, totalWeeks, tutoringSessionsPerWeek) ==
    LET owned == SelectSeq([w \in 1..totalWeeks |-> w],
                           LAMBDA w : FindPhase(phases, w) # 0)
    IN  [i \in 1..Len(owned) |->
            WeeklyPlan(phases[FindPhase(phases, owned[i])], owned[i],
                       totalWeeks, tutoringSessionsPerWeek)]

(***************************************************************************)
(* generateStudyPlan, one action per step of the function                  *)
(***************************************************************************)
VARIABLES pc, input, timeline, scoreGap, recommendation, feasibility,
          planType, phases, weeklyPlans, plan

vars == <<pc, input, timeline, scoreGap, recommendation, feasibility,
          planType, phases, weeklyPlans, plan>>

\* the value of a local that is not assigned yet
Unset == [unset |-> TRUE]

\* test dates, as days from today
MaxDays == 153

\* (currentScore, targetScore) pairs the plans are generated for
ScorePairs == { <<1080, 1350>>, <<1000, 1200>>, <<1000, 1000>> }

UserInputs ==
    { [testDate |-> d, currentScore |-> s[1], targetScore |-> s[2],
       tutoringSessionsPerWeek |-> t] :
        d \in 0..MaxDays, s \in ScorePairs, t \in 1..4 }

Init ==
    /\ pc = "calculateTimeline"
    /\ input \in UserInputs
    /\ timeline = Unset
    /\ scoreGap = Unset
    /\ recommendation = Unset
    /\ feasibility = Unset
    /\ planType = Unset
    /\ phases = Unset
    /\ weeklyPlans = Unset
    /\ plan = Unset

CalculateTimeline ==
    /\ pc = "calculateTimeline"
    /\ timeline' = calculateTimeline(input.testDate)
    /\ pc' = "calculateScoreGap"
    /\ UNCHANGED <<input, scoreGap, recommendation, feasibility, planType,
                   phases, weeklyPlans, plan>>

CalculateScoreGap ==
    /\ pc = "calculateScoreGap"
    /\ scoreGap' = calculateScoreGap(input.currentScore, input.targetScore)
    /\ pc' = "recommendIntensity"
    /\ UNCHANGED <<input, timeline, recommendation, feasibility, planType,
                   phases, weeklyPlans, plan>>

RecommendIntensity ==
    /\ pc = "recommendIntensity"
    /\ recommendation' = recommendIntensity(timeline.effectiveWeeks,
                              scoreGap.totalGap, input.tutoringSessionsPerWeek)
    /\ pc' = "assessFeasibility"
    /\ UNCHANGED <<input, timeline, scoreGap, feasibility, planType, phases,
                   weeklyPlans, plan>>

AssessFeasibility ==
    /\ pc = "assessFeasibility"
    /\ feasibility' = assessFeasibility(timeline, scoreGap,
                           recommendation.intensity,
                           input.tutoringSessionsPerWeek)
    /\ pc' = "selectPlanType"
    /\ UNCHANGED <<input, timeline, scoreGap, recommendation, planType, phases,
                   weeklyPlans, plan>>

SelectPlanType ==
    /\ pc = "selectPlanType"
    /\ planType' = selectPlanType(timeline.effectiveWeeks)
    /\ pc' = "generatePhases"
    /\ UNCHANGED <<input, timeline, scoreGap, recommendation, feasibility,
                   phases, weeklyPlans, plan>>

GeneratePhases ==
    /\ pc = "generatePhases"
    /\ phases' = generatePhases(planType, timeline.effectiveWeeks, scoreGap)
    /\ pc' = "generateWeeklyPlans"
    /\ UNCHANGED <<input, timeline, scoreGap, recommendation, feasibility,
                   planType, weeklyPlans, plan>>

GenerateWeeklyPlans ==
    /\ pc = "generateWeeklyPlans"
    /\ weeklyPlans' = generateWeeklyPlans(phases, timeline.effectiveWeeks,
                           input.tutoringSessionsPerWeek)
    /\ pc' = "assemble"
    /\ UNCHANGED <<input, timeline, scoreGap, recommendation, feasibility,
                   planType, phases, plan>>

\* TotalTutoringSessions from the calendar weeks
TotalTutoringSessionsCalendar(tutoringSessionsPerWeek, tl) ==
    tutoringSessionsPerWeek * tl.totalWeeks

\* line 1073
TotalTutoringSessions(tutoringSessionsPerWeek, tl) ==
    tutoringSessionsPerWeek * tl.effectiveWeeks

\* ProjectedScore without Math.min(1600, ...)
ProjectedScoreNoCap(currentScore, projectedImprovement) ==
    MathRound(FDiv(FAdd(FInt(currentScore), projectedImprovement),
                   FInt(10))) * 10

\* lines 1064-1068, projectedScore of the plan
ProjectedScore(currentScore, projectedImprovement) ==
    IntMin(1600,
        MathRound(FDiv(FAdd(FInt(currentScore), projectedImprovement),
                       FInt(10))) * 10)

\* Assemble with a start date read from a clock that has moved on by a day
AssembleDrift ==
    /\ pc = "assemble"
    /\ LET projectedScore ==
               ProjectedScore(input.currentScore,
                              feasibility.projectedImprovement)
           tutoringMultiplier ==
               TUTORING_MULTIPLIERS[input.tutoringSessionsPerWeek]
           tutoringHoursPerWeek ==
               TutoringHours(input.tutoringSessionsPerWeek)
           totalTutoringSessions ==
               TotalTutoringSessions(input.tutoringSessionsPerWeek, timeline)
       IN  plan' = [startDate |-> timeline.startDate + 1,
                    testDate |-> timeline.testDate,
                    totalWeeks |-> timeline.effectiveWeeks,
                    startingScore |-> input.currentScore,
                    targetScore |-> input.targetScore,
                    projectedScore |-> projectedScore,
                    scoreGap |-> scoreGap,
                    planType |-> planType,
                    phases |-> phases,
                    weeklyPlans |-> weeklyPlans,
                    feasibility |-> feasibility,
                    studyIntensity |-> recommendation.intensity,
                    weeklyHoursRecommended |-> recommendation.weeklyHours,
                    tutoring |->
                        [sessionsPerWeek |-> input.tutoringSessionsPerWeek,
                         totalSessions |-> totalTutoringSessions,
                         hoursPerWeek |-> tutoringHoursPerWeek,
                         multiplierApplied |-> tutoringMultiplier]]
    /\ pc' = "done"
    /\ UNCHANGED <<input, timeline, scoreGap, recommendation, feasibility,
                   planType, phases, weeklyPlans>>

\* steps 8 and 9 and the returned record (createdAt left out)
Assemble ==
    /\ pc = "assemble"
    /\ LET projectedScore ==
               ProjectedScore(input.currentScore,
                              feasibility.projectedImprovement)
           tutoringMultiplier ==
               TUTORING_MULTIPLIERS[input.tutoringSessionsPerWeek]
           tutoringHoursPerWeek ==
               TutoringHours(input.tutoringSessionsPerWeek)
           totalTutoringSessions ==
               TotalTutoringSessions(input.tutoringSessionsPerWeek, timeline)
       IN  plan' = [startDate |-> timeline.startDate,
                    testDate |-> timeline.testDate,
                    totalWeeks |-> timeline.effectiveWeeks,
                    startingScore |-> input.currentScore,
                    targetScore |-> input.targetScore,
                    projectedScore |-> projectedScore,
                    scoreGap |-> scoreGap,
                    planType |-> planType,
                    phases |-> phases,
                    weeklyPlans |-> weeklyPlans,
                    feasibility |-> feasibility,
                    studyIntensity |-> recommendation.intensity,
                    weeklyHoursRecommended |-> recommendation.weeklyHours,
                    tutoring |->
                        [sessionsPerWeek |-> input.tutoringSessionsPerWeek,
                         totalSessions |-> totalTutoringSessions,
                         hoursPerWeek |-> tutoringHoursPerWeek,
                         multiplierApplied |-> tutoringMultiplier]]
    /\ pc' = "done"
    /\ UNCHANGED <<input, timeline, scoreGap, recommendation, feasibility,
                   planType, phases, weeklyPlans>>

Next ==
    \/ CalculateTimeline
    \/ CalculateScoreGap
    \/ RecommendIntensity
    \/ AssessFeasibility
    \/ SelectPlanType
    \/ GeneratePhases
    \/ GenerateWeeklyPlans
    \/ Assemble

Spec == Init /\ [][Next]_vars

(***************************************************************************)
(* assessFeasibility called on its own (it is exported): any tier, any     *)
(* tutoring frequency, gaps in steps of the score inputs' step, from a     *)
(* target one step below the current score on.                             *)
(***************************************************************************)
MaxAssessWeeks == 20
MaxGapSteps == 64
ScoreStep == 10
MinScore == 400

AssessCalls ==
    { [weeks |-> w, gap |-> ScoreStep * k, intensity |-> intensityLevels[i],
       tutoringSessionsPerWeek |-> t] :
        w \in 1..MaxAssessWeeks, k \in (-1)..MaxGapSteps,
        i \in DOMAIN intensityLevels, t \in 1..4 }

InitAssess ==
    /\ pc = "assessFeasibility"
    /\ \E c \in AssessCalls :
          /\ input = [testDate |-> 7 * (c.weeks + 1),
                      currentScore |-> MinScore + ScoreStep,
                      targetScore |-> MinScore + ScoreStep + c.gap,
                      tutoringSessionsPerWeek |-> c.tutoringSessionsPerWeek]
          /\ recommendation = [intensity |-> c.intensity,
                               weeklyHours |-> WEEKLY_HOURS[c.intensity]]
    /\ timeline = calculateTimeline(input.testDate)
    /\ scoreGap = calculateScoreGap(input.currentScore, input.targetScore)
    /\ feasibility = Unset
    /\ planType = Unset
    /\ phases = Unset
    /\ weeklyPlans = Unset
    /\ plan = Unset

NextAssess == AssessFeasibility

SpecAssess == InitAssess /\ [][NextAssess]_vars

(***************************************************************************)
(* generateStudyPlan from step 5 on, for test dates a whole number of      *)
(* weeks away: the pipeline's state after step 4, for every week count up  *)
(* to MaxWeeks and every tutoring frequency.                               *)
(***************************************************************************)
MaxWeeks == 56

InitWeeks ==
    /\ pc = "selectPlanType"
    /\ \E w \in 1..MaxWeeks, t \in 1..4 :
          input = [testDate |-> 7 * (w + 1), currentScore |-> 1080,
                   targetScore |-> 1350, tutoringSessionsPerWeek |-> t]
    /\ timeline = calculateTimeline(input.testDate)
    /\ scoreGap = calculateScoreGap(input.currentScore, input.targetScore)
    /\ recommendation = recommendIntensity(timeline.effectiveWeeks,
                             scoreGap.totalGap, input.tutoringSessionsPerWeek)
    /\ feasibility = assessFeasibility(timeline, scoreGap,
                          recommendation.intensity,
                          input.tutoringSessionsPerWeek)
    /\ planType = Unset
    /\ phases = Unset
    /\ weeklyPlans = Unset
    /\ plan = Unset

NextWeeks ==
    \/ SelectPlanType
    \/ GeneratePhases
    \/ GenerateWeeklyPlans
    \/ Assemble

SpecWeeks == InitWeeks /\ [][NextWeeks]_vars

(***************************************************************************)
(* calculateScoreGap called on its own (it is exported), for every target  *)
(* score the page accepts and a current score at the bottom of the range,  *)
(* at the top of it, and at the README's 1080.                             *)
(***************************************************************************)
MaxScore == 1600

InitGap ==
    /\ pc = "calculateScoreGap"
    /\ \E c \in {MinScore, 1080, MaxScore}, t \in MinScore..MaxScore :
          input = [testDate |-> 2 * 7, currentScore |-> c, targetScore |-> t,
                   tutoringSessionsPerWeek |-> 2]
    /\ timeline = calculateTimeline(input.testDate)
    /\ scoreGap = Unset
    /\ recommendation = Unset
    /\ feasibility = Unset
    /\ planType = Unset
    /\ phases = Unset
    /\ weeklyPlans = Unset
    /\ plan = Unset

NextGap == CalculateScoreGap

SpecGap == InitGap /\ [][NextGap]_vars

(***************************************************************************)
(* generateWeeklyPlans called on its own (it is exported), with the phase  *)
(* list generatePhases gives for the week count or that list with one      *)
(* phase taken out, which leaves the weeks of that phase without an owner. *)
(***************************************************************************)
MaxExpandWeeks == 24

\* seq without its j-th element; seq itself for j = 0
RemoveAt(seq, j) ==
    [i \in 1..(Len(seq) - (IF j = 0 THEN 0 ELSE 1)) |->
        IF j = 0 \/ i < j THEN seq[i] ELSE seq[i + 1]]

InitExpand ==
    /\ pc = "generateWeeklyPlans"
    /\ \E w \in 1..MaxExpandWeeks, t \in 1..4 :
          input = [testDate |-> 7 * (w + 1), currentScore |-> 1080,
                   targetScore |-> 1350, tutoringSessionsPerWeek |-> t]
    /\ timeline = calculateTimeline(input.testDate)
    /\ scoreGap = calculateScoreGap(input.currentScore, input.targetScore)
    /\ recommendation = recommendIntensity(timeline.effectiveWeeks,
                             scoreGap.totalGap, input.tutoringSessionsPerWeek)
    /\ feasibility = assessFeasibility(timeline, scoreGap,
                          recommendation.intensity,
                          input.tutoringSessionsPerWeek)
    /\ planType = selectPlanType(timeline.effectiveWeeks)
    /\ \E j \in 0..Len(generatePhases(planType, timeline.effectiveWeeks,
                                       scoreGap)) :
          phases = RemoveAt(generatePhases(planType, timeline.effectiveWeeks,
                                           scoreGap), j)
    /\ weeklyPlans = Unset
    /\ plan = Unset

NextExpand == GenerateWeeklyPlans

SpecExpand == InitExpand /\ [][NextExpand]_vars

(***************************************************************************)
(* generateStudyPlan for scores that are not all multiples of ten and for  *)
(* scores next to the top of the range: every target up to MaxScoreGap     *)
(* above the current score, plans of 1..MaxScoreWeeks weeks.               *)
(***************************************************************************)
MaxScoreWeeks == 3
MaxScoreGap == 30

ScoreStarts == {MinScore, 1004, 1080, MaxScore - 3}

InitScores ==
    /\ pc = "calculateTimeline"
    /\ \E w \in 1..MaxScoreWeeks, c \in ScoreStarts, g \in 1..MaxScoreGap,
          t \in 1..4 :
          /\ c + g <= MaxScore
          /\ input = [testDate |-> 7 * (w + 1), currentScore |-> c,
                      targetScore |-> c + g, tutoringSessionsPerWeek |-> t]
    /\ timeline = Unset
    /\ scoreGap = Unset
    /\ recommendation = Unset
    /\ feasibility = Unset
    /\ planType = Unset
    /\ phases = Unset
    /\ weeklyPlans = Unset
    /\ plan = Unset

SpecScores == InitScores /\ [][Next]_vars

(***************************************************************************)
(* Properties                                                              *)
(***************************************************************************)
PhasesGenerated == pc \in {"generateWeeklyPlans", "assemble", "done"}
Assessed == pc = "selectPlanType"
Done == pc = "done"

Owners(phaseList, week) ==
    {j \in DOMAIN phaseList :
        week >= phaseList[j].startWeek /\ week <= phaseList[j].endWeek}

\* C1: the phases generatePhases returns for selectPlanType(effectiveWeeks)
\* are contiguous and cover the weeks: the first starts at week 1, each next
\* one starts the week after the one before ends, the last ends at
\* effectiveWeeks.
C1_PhasesContiguous ==
    PhasesGenerated =>
        /\ planType = selectPlanType(timeline.effectiveWeeks)
        /\ Len(phases) >= 1
        /\ phases[1].startWeek = 1
        /\ \A i \in 1..(Len(phases) - 1) :
              phases[i].endWeek + 1 = phases[i + 1].startWeek
        /\ phases[Len(phases)].endWeek = timeline.effectiveWeeks

C1_Witness ==
    /\ pc = "generateWeeklyPlans"
    /\ planType = "extended"
    /\ timeline.effectiveWeeks = 20
    /\ Len(phases) = 6

\* C2: no phase span inverts: every phase of every plan has
\* startWeek <= endWeek, also for effectiveWeeks = 1.
C2_SpansNeverInvert ==
    PhasesGenerated =>
        \A i \in DOMAIN phases : phases[i].startWeek <= phases[i].endWeek

\* C3: the plan has exactly effectiveWeeks weekly plans, numbered
\* 1..effectiveWeeks in order, and each week number lies in the span of
\* exactly one phase, the one the weekly plan names.
C3_WeeklyPlansCoverWeeks ==
    Done =>
        /\ plan.totalWeeks = timeline.effectiveWeeks
        /\ Len(plan.weeklyPlans) = plan.totalWeeks
        /\ \A i \in DOMAIN plan.weeklyPlans :
              /\ plan.weeklyPlans[i].weekNumber = i
              /\ Cardinality(Owners(plan.phases, i)) = 1
              /\ \A j \in Owners(plan.phases, i) :
                    plan.phases[j].name = plan.weeklyPlans[i].phase

C3_Witness ==
    /\ Done
    /\ plan.totalWeeks = 1
    /\ Len(plan.weeklyPlans) = 1
    /\ plan.weeklyPlans[1].weekNumber = 1

\* C4: the plan type is a step function of the effective weeks alone: cram
\* up to 4, short for 5..8, standard for 9..16, extended for 17..32,
\* long_term from 33 on (also above 52).
C4_PlanTypeBoundaries ==
    Done =>
        LET w == plan.totalWeeks
        IN  /\ w <= 4 => plan.planType = "cram"
            /\ (5 <= w /\ w <= 8) => plan.planType = "short"
            /\ (9 <= w /\ w <= 16) => plan.planType = "standard"
            /\ (17 <= w /\ w <= 32) => plan.planType = "extended"
            /\ w >= 33 => plan.planType = "long_term"

C4_Witness ==
    /\ Done
    /\ plan.totalWeeks > 52
    /\ plan.planType = "long_term"

\* C5: when some tier makes assessFeasibility feasible for the plan's gap,
\* weeks and tutoring frequency, the tier recommendIntensity picked is
\* feasible too.
C5_RecommendedTierFeasible ==
    Assessed =>
        ((\E i \in DOMAIN intensityLevels :
              assessFeasibility(timeline, scoreGap, intensityLevels[i],
                                input.tutoringSessionsPerWeek).isFeasible)
         => feasibility.isFeasible)

\* C6: the recommendations are empty exactly when the assessment is
\* feasible; it is feasible exactly when projectedImprovement >= totalGap;
\* shortfall is present exactly when it is infeasible, and is then
\* totalGap - projectedImprovement, above 0.
C6_RecommendationsIffInfeasible ==
    Assessed =>
        /\ (feasibility.recommendations = <<>>) <=> feasibility.isFeasible
        /\ feasibility.isFeasible <=>
               FCmp(feasibility.projectedImprovement,
                    FInt(scoreGap.totalGap)) >= 0
        /\ ("shortfall" \in DOMAIN feasibility) <=> ~feasibility.isFeasible
        /\ ~feasibility.isFeasible =>
               /\ feasibility.shortfall =
                      FSub(FInt(scoreGap.totalGap),
                           feasibility.projectedImprovement)
               /\ FCmp(feasibility.shortfall, FInt(0)) > 0

C6_Witness ==
    /\ Assessed
    /\ ~feasibility.isFeasible
    /\ Len(feasibility.recommendations) = 4

\* C7: the confidence is an integer in 0..100: in 60..95 when feasible, in
\* 20..60 when infeasible.
C7_ConfidenceRange ==
    Assessed =>
        /\ feasibility.confidence \in 0..100
        /\ feasibility.isFeasible => feasibility.confidence \in 60..95
        /\ ~feasibility.isFeasible => feasibility.confidence \in 20..60

C7_Witness ==
    /\ Assessed
    /\ feasibility.isFeasible
    /\ scoreGap.totalGap > 0
    /\ feasibility.confidence = 95

RECURSIVE SessionCount(_)
SessionCount(weeks) ==
    IF weeks = <<>> THEN 0
    ELSE Len(Head(weeks).tutoringSessions) + SessionCount(Tail(weeks))

\* C8: tutoring.totalSessions is sessionsPerWeek times the plan's totalWeeks,
\* and is the number of tutoring sessions in all weekly plans together.
C8_TotalSessions ==
    Done =>
        /\ plan.tutoring.totalSessions =
               plan.tutoring.sessionsPerWeek * plan.totalWeeks
        /\ plan.tutoring.totalSessions = SessionCount(plan.weeklyPlans)

C8_Witness ==
    /\ Done
    /\ plan.totalWeeks = 19
    /\ plan.tutoring.sessionsPerWeek = 2
    /\ plan.tutoring.totalSessions = 38

C10_WeeklyHours ==
    Done =>
        \A i \in DOMAIN plan.weeklyPlans :
            LET wp == plan.weeklyPlans[i]
            IN  /\ wp.totalHoursWithTutoring =
                       FInt(wp.targetHours + input.tutoringSessionsPerWeek)
                /\ \A j \in Owners(plan.phases, wp.weekNumber) :
                       wp.targetHours = plan.phases[j].weeklyHours
                /\ Owners(plan.phases, wp.weekNumber) # {}
                /\ wp.targetProblems = wp.targetHours * 8

C10_Witness ==
    /\ Done
    /\ plan.planType = "long_term"
    /\ input.tutoringSessionsPerWeek = 4
    /\ plan.weeklyPlans[plan.totalWeeks].targetHours = 14
    /\ plan.weeklyPlans[plan.totalWeeks].totalHoursWithTutoring = FInt(18)

GapCalculated == pc \notin {"calculateTimeline", "calculateScoreGap"}

\* C11: when the plan is infeasible, the adjust_target recommendation
\* proposes round((projectedImprovement + currentScore) / 10) * 10 with the
\* currentScore given to generateStudyPlan.
C11_AdjustTargetFromCurrentScore ==
    (Assessed /\ ~feasibility.isFeasible) =>
        \E i \in DOMAIN feasibility.recommendations :
            /\ feasibility.recommendations[i].type = "adjust_target"
            /\ feasibility.recommendations[i].details.achievableScore =
                   MathRound(FDiv(FAdd(feasibility.projectedImprovement,
                                       FInt(input.currentScore)),
                                  FInt(10))) * 10

\* C12 as stated: for currentScore 1080 and targetScore 1350
\* calculateScoreGap returns totalGap 270 with difficulty "significant".
C12_Gap270Significant ==
    (GapCalculated /\ input.currentScore = 1080 /\ input.targetScore = 1350)
        => (scoreGap.totalGap = 270 /\ scoreGap.difficulty = "significant")

\* C12, amended: for currentScore 1080 and targetScore 1350
\* calculateScoreGap returns totalGap 270 with difficulty "large" (270 is
\* above the inclusive upper bound 250 of "significant").
C12_Gap270Large ==
    (GapCalculated /\ input.currentScore = 1080 /\ input.targetScore = 1350)
        => (scoreGap.totalGap = 270 /\ scoreGap.difficulty = "large")

C12_Witness ==
    /\ GapCalculated
    /\ input.currentScore = 1080
    /\ input.targetScore = 1350
    /\ scoreGap.totalGap = 270

\* C13: for currentScore 1080, targetScore 1350, 2 tutoring sessions a week
\* and 19 effective weeks the plan is "extended", moderate with 6.5
\* recommended hours, projects 1410, is feasible with confidence 67 and has
\* 38 tutoring sessions.
C13_ReadmeScenario ==
    (/\ Done
     /\ input.currentScore = 1080
     /\ input.targetScore = 1350
     /\ input.tutoringSessionsPerWeek = 2
     /\ plan.totalWeeks = 19)
    => /\ plan.planType = "extended"
       /\ plan.studyIntensity = "moderate"
       /\ plan.weeklyHoursRecommended = Lit(65, 10)
       /\ plan.projectedScore = 1410
       /\ plan.feasibility.isFeasible
       /\ plan.feasibility.confidence = 67
       /\ plan.tutoring.totalSessions = 38

C13_Witness ==
    /\ Done
    /\ input.currentScore = 1080
    /\ input.targetScore = 1350
    /\ input.tutoringSessionsPerWeek = 2
    /\ plan.totalWeeks = 19
    /\ plan.projectedScore = 1410

\* C14: whenever targetScore <= currentScore the gap is 0 and "small", and
\* for every number of weeks, tutoring frequency and tier the assessment is
\* feasible with confidence 95 and no recommendations.
C14_ZeroGap ==
    (GapCalculated /\ input.targetScore <= input.currentScore) =>
        /\ scoreGap.totalGap = 0
        /\ scoreGap.difficulty = "small"
        /\ Assessed =>
              /\ feasibility.isFeasible
              /\ feasibility.confidence = 95
              /\ feasibility.recommendations = <<>>

C14_Witness ==
    /\ Assessed
    /\ input.targetScore < input.currentScore
    /\ recommendation.intensity = "very_intensive"
    /\ timeline.effectiveWeeks = 1
    /\ feasibility.isFeasible
    /\ feasibility.confidence = 95

DifficultyRank(d) ==
    CASE d = "small" -> 1 [] d = "moderate" -> 2 [] d = "significant" -> 3
      [] d = "large" -> 4 [] d = "very_large" -> 5

\* C15: totalGap = max(0, target - current), isAchievable iff totalGap <= 500,
\* difficulty small up to 100, moderate for 101..150, significant for
\* 151..250, large for 251..350, very_large above; the difficulty never
\* falls when the gap grows.
C15_ScoreGapBuckets ==
    GapCalculated =>
        LET d == input.targetScore - input.currentScore
            g == scoreGap.totalGap
        IN  /\ g = (IF d > 0 THEN d ELSE 0)
            /\ scoreGap.isAchievable <=> (g <= 500)
            /\ (scoreGap.difficulty = "small") <=> (g <= 100)
            /\ (scoreGap.difficulty = "moderate") <=> (101 <= g /\ g <= 150)
            /\ (scoreGap.difficulty = "significant") <=> (151 <= g /\ g <= 250)
            /\ (scoreGap.difficulty = "large") <=> (251 <= g /\ g <= 350)
            /\ (scoreGap.difficulty = "very_large") <=> (g > 350)
            /\ input.targetScore > MinScore =>
                  DifficultyRank(calculateScoreGap(input.currentScore,
                                     input.targetScore - 1).difficulty)
                      <= DifficultyRank(scoreGap.difficulty)

C15_Witness ==
    /\ GapCalculated
    /\ scoreGap.totalGap = 350
    /\ scoreGap.difficulty = "large"
    /\ scoreGap.isAchievable

\* C16: in every phase of every template the four content-distribution
\* percentages sum to 100, for every number of effective weeks.
C16_DistributionSums ==
    PhasesGenerated =>
        \A i \in DOMAIN phases :
            phases[i].contentDistribution.learning
            + phases[i].contentDistribution.practice
            + phases[i].contentDistribution.testing
            + phases[i].contentDistribution.review = 100

C16_Witness ==
    /\ PhasesGenerated
    /\ planType = "long_term"
    /\ Len(phases) = 4
    /\ phases[4].contentDistribution.review = 10

TimelineCalculated == pc # "calculateTimeline"

\* C18 as stated: for every totalDays >= 0, with totalWeeks =
\* floor(totalDays / 7) and effectiveWeeks = max(1, totalWeeks - 1), the
\* scheduled weeks leave the last calendar week free:
\* 7 * effectiveWeeks <= totalDays - 7.
C18_RestWeekAlways ==
    TimelineCalculated =>
        /\ timeline.totalWeeks = timeline.totalDays \div 7
        /\ timeline.effectiveWeeks = IntMax(1, timeline.totalWeeks - 1)
        /\ 7 * timeline.effectiveWeeks <= timeline.totalDays - 7

\* C18, amended: totalWeeks = floor(totalDays / 7) and effectiveWeeks =
\* max(1, totalWeeks - 1); 7 * effectiveWeeks <= totalDays - 7 holds exactly
\* when totalDays >= 14.  Below 14 days effectiveWeeks is floored at 1 and
\* the one scheduled week does not leave a free week before the test.
C18_RestWeekFromTwoWeeks ==
    TimelineCalculated =>
        /\ timeline.totalWeeks = timeline.totalDays \div 7
        /\ timeline.effectiveWeeks = IntMax(1, timeline.totalWeeks - 1)
        /\ (7 * timeline.effectiveWeeks <= timeline.totalDays - 7)
               <=> (timeline.totalDays >= 14)
        /\ timeline.totalDays < 14 => timeline.effectiveWeeks = 1

C18_Witness ==
    /\ TimelineCalculated
    /\ timeline.totalDays = 27
    /\ timeline.totalWeeks = 3
    /\ timeline.effectiveWeeks = 2

\* the record generateStudyPlan returns (createdAt left out), from its input
\* and the values of its steps 1 to 7
StudyPlan(in, tl, sg, rec, fe, pt, ph, wps) ==
    [startDate |-> tl.startDate,
     testDate |-> tl.testDate,
     totalWeeks |-> tl.effectiveWeeks,
     startingScore |-> in.currentScore,
     targetScore |-> in.targetScore,
     projectedScore |->
         IntMin(1600,
             MathRound(FDiv(FAdd(FInt(in.currentScore),
                                 fe.projectedImprovement),
                            FInt(10))) * 10),
     scoreGap |-> sg,
     planType |-> pt,
     phases |-> ph,
     weeklyPlans |-> wps,
     feasibility |-> fe,
     studyIntensity |-> rec.intensity,
     weeklyHoursRecommended |-> rec.weeklyHours,
     tutoring |->
         [sessionsPerWeek |-> in.tutoringSessionsPerWeek,
          totalSessions |-> in.tutoringSessionsPerWeek * tl.effectiveWeeks,
          hoursPerWeek |->
              FDiv(FInt(in.tutoringSessionsPerWeek
                        * TUTORING_SESSION_DURATION), FInt(60)),
          multiplierApplied |->
              TUTORING_MULTIPLIERS[in.tutoringSessionsPerWeek]]]

C20_CheapestTier ==
    Done =>
        LET need == FDiv(FDiv(FInt(scoreGap.totalGap),
                              FInt(timeline.effectiveWeeks)),
                         TUTORING_MULTIPLIERS[input.tutoringSessionsPerWeek])
            Meets(i) ==
                FCmp(FInt(WEEKLY_IMPROVEMENT_RATES[intensityLevels[i]]),
                     need) >= 0
            cheapest ==
                IF Meets(1) THEN "light"
                ELSE IF Meets(2) THEN "moderate"
                ELSE IF Meets(3) THEN "intensive"
                ELSE "very_intensive"
        IN  /\ plan.studyIntensity = cheapest
            /\ plan.studyIntensity = "very_intensive"
                   <=> FCmp(need, FInt(22)) > 0
            /\ plan.weeklyHoursRecommended =
                   (CASE plan.studyIntensity = "light" -> FInt(3)
                      [] plan.studyIntensity = "moderate" -> Lit(65, 10)
                      [] plan.studyIntensity = "intensive" -> Lit(105, 10)
                      [] plan.studyIntensity = "very_intensive" -> Lit(165, 10))
            /\ plan.feasibility =
                   assessFeasibility(timeline, scoreGap, plan.studyIntensity,
                                     input.tutoringSessionsPerWeek)

C20_Witness ==
    /\ Done
    /\ plan.scoreGap.totalGap = 270
    /\ plan.totalWeeks = 15
    /\ input.tutoringSessionsPerWeek = 1
    /\ plan.studyIntensity = "moderate"
    /\ plan.weeklyHoursRecommended = Lit(65, 10)

\* the position of a recommendation kind in the order the kinds are pushed
KindRank(type) ==
    CASE type = "increase_intensity" -> 1
      [] type = "add_tutoring" -> 2
      [] type = "extend_timeline" -> 3
      [] type = "adjust_target" -> 4

KindPriority(type) ==
    CASE type = "increase_intensity" -> "high"
      [] type = "add_tutoring" -> "high"
      [] type = "extend_timeline" -> "medium"
      [] type = "adjust_target" -> "low"

\* weeklyRate of the assessed call
AssessedWeeklyRate ==
    FMul(FInt(WEEKLY_IMPROVEMENT_RATES[recommendation.intensity]),
         TUTORING_MULTIPLIERS[input.tutoringSessionsPerWeek])

\* C21: an infeasible assessment lists its recommendations in the order
\* increase_intensity, add_tutoring, extend_timeline, adjust_target with
\* priorities high, high, medium, low, each kind at most once; the last two
\* entries are always extend_timeline and adjust_target, so there are 2 to 4
\* entries; additionalWeeks is the least whole number not below
\* shortfall / weeklyRate and is at least 1.
C21_RecommendationOrder ==
    (Assessed /\ ~feasibility.isFeasible) =>
        LET recs == feasibility.recommendations
            n    == Len(recs)
        IN  /\ n \in 2..4
            /\ \A i \in 1..n : recs[i].priority = KindPriority(recs[i].type)
            /\ \A i \in 1..(n - 1) :
                  KindRank(recs[i].type) < KindRank(recs[i + 1].type)
            /\ recs[n - 1].type = "extend_timeline"
            /\ recs[n].type = "adjust_target"
            /\ LET q == FDiv(feasibility.shortfall, AssessedWeeklyRate)
                    a == recs[n - 1].details.additionalWeeks
                IN  /\ a >= 1
                    /\ FGe(FInt(a), q)
                    /\ FLt(FInt(a - 1), q)

C21_Witness ==
    /\ Assessed
    /\ ~feasibility.isFeasible
    /\ Len(feasibility.recommendations) = 2
    /\ feasibility.recommendations[1].type = "extend_timeline"
    /\ feasibility.recommendations[1].details.additionalWeeks = 3

\* the tutoring multipliers 1.20, 1.30, 1.35, 1.40 as hundredths
TutoringMultiplierHundredths == <<120, 130, 135, 140>>

\* min(weeks x rate x multiplier, cap x multiplier) >= gap for the tier at
\* index i and a tutoring frequency, in exact arithmetic
ClosesGap(weeks, i, tutoringSessionsPerWeek, gap) ==
    LET h == TutoringMultiplierHundredths[tutoringSessionsPerWeek]
    IN  IntMin(weeks * WEEKLY_IMPROVEMENT_RATES[intensityLevels[i]] * h,
               MAX_IMPROVEMENTS[intensityLevels[i]] * h) >= gap * 100

RecommendationsOfKind(recs, type) == {i \in DOMAIN recs : recs[i].type = type}

\* C22: in an infeasible assessment increase_intensity is present exactly
\* when some tier strictly above the current one has
\* min(weeks x rate x multiplier, cap x multiplier) >= gap, and names the
\* lowest such tier; add_tutoring is present exactly when the tutoring
\* frequency is below 4 and the current tier's projection with the
\* multiplier of frequency + 1 is >= gap.
C22_HighPriorityIffClosesGap ==
    (Assessed /\ ~feasibility.isFeasible) =>
        LET recs   == feasibility.recommendations
            weeks  == timeline.effectiveWeeks
            gap    == scoreGap.totalGap
            t      == input.tutoringSessionsPerWeek
            cur    == IndexOf(intensityLevels, recommendation.intensity)
            higher == {i \in (cur + 1)..Len(intensityLevels) :
                          ClosesGap(weeks, i, t, gap)}
            inc    == RecommendationsOfKind(recs, "increase_intensity")
            add    == RecommendationsOfKind(recs, "add_tutoring")
        IN  /\ (inc # {}) <=> (higher # {})
            /\ \A k \in inc :
                  /\ IndexOf(intensityLevels, recs[k].details.newIntensity)
                         \in higher
                  /\ \A i \in higher :
                        IndexOf(intensityLevels,
                                recs[k].details.newIntensity) <= i
            /\ (add # {}) <=> (t < 4 /\ ClosesGap(weeks, cur, t + 1, gap))

\* the weekly plans whose focus list holds an entry
FocusHolders(weeklyPlanList, entry) ==
    {i \in DOMAIN weeklyPlanList :
        \E k \in DOMAIN weeklyPlanList[i].focus :
            weeklyPlanList[i].focus[k] = entry}

\* C23: for every phase of the plan each of its objectives is in the focus
\* list of exactly one weekly plan, a week of that phase; the entry
\* "Begin <phase> phase" is in the focus list of the phase's first week and no
\* other, as its first entry.
C23_ObjectivesDistributed ==
    Done =>
        \A j \in DOMAIN plan.phases :
            LET p     == plan.phases[j]
                begin == "Begin " \o p.name \o " phase"
            IN  /\ \A o \in DOMAIN p.objectives :
                      LET holders ==
                              FocusHolders(plan.weeklyPlans, p.objectives[o])
                      IN  /\ Cardinality(holders) = 1
                          /\ \A i \in holders :
                                /\ plan.weeklyPlans[i].phase = p.name
                                /\ plan.weeklyPlans[i].weekNumber >= p.startWeek
                                /\ plan.weeklyPlans[i].weekNumber <= p.endWeek
                /\ \E i \in DOMAIN plan.weeklyPlans :
                      /\ plan.weeklyPlans[i].weekNumber = p.startWeek
                      /\ FocusHolders(plan.weeklyPlans, begin) = {i}
                      /\ plan.weeklyPlans[i].focus[1] = begin

\* the owning phase of a weekly plan of the assembled plan
PlanPhaseOf(i) ==
    plan.phases[FindPhase(plan.phases, plan.weeklyPlans[i].weekNumber)]

\* the content categories with a share above zero, in the order their
\* activities are pushed
Categories(d) ==
    (IF d.learning > 0 THEN <<"learning">> ELSE <<>>)
    \o (IF d.practice > 0 THEN <<"practice">> ELSE <<>>)
    \o (IF d.testing > 0 THEN <<"testing">> ELSE <<>>)
    \o (IF d.review > 0 THEN <<"review">> ELSE <<>>)

\* n is weeklyHours x 60 x pct / 100 rounded to the nearest whole number,
\* a half rounded up
IsRounded(n, weeklyHours, pct) ==
    /\ 100 * n <= weeklyHours * 60 * pct + 50
    /\ weeklyHours * 60 * pct + 50 < 100 * n + 100

\* one activity per category with a share above zero, in the order lesson,
\* practice, testing activity, review, each with its rounded duration
ActivitiesFollowCategories(i) ==
    LET p    == PlanPhaseOf(i)
        cats == Categories(p.contentDistribution)
        acts == plan.weeklyPlans[i].activities
    IN  /\ Len(acts) = Len(cats)
        /\ \A k \in DOMAIN cats :
              /\ IsRounded(acts[k].duration, p.weeklyHours,
                           p.contentDistribution[cats[k]])
              /\ cats[k] = "learning" => acts[k].type = "lesson"
              /\ cats[k] = "practice" => acts[k].type = "practice"
              /\ cats[k] = "review" => acts[k].type = "review"
              /\ cats[k] = "testing" =>
                    acts[k].type \in {"diagnostic", "rest", "test"}

TestingActivities(i) ==
    {k \in DOMAIN plan.weeklyPlans[i].activities :
        plan.weeklyPlans[i].activities[k].type
            \in {"diagnostic", "rest", "test"}}

\* C24 as stated: the activities follow the categories, and the testing
\* activity is a diagnostic on the plan's first week, a "rest" activity named
\* "Final Preparation" on the plan's last week, a "test" in every other week,
\* also when the only week is both first and last.
C24_TestingActivityByWeek ==
    Done =>
        \A i \in DOMAIN plan.weeklyPlans :
            LET week == plan.weeklyPlans[i].weekNumber
                acts == plan.weeklyPlans[i].activities
            IN  /\ ActivitiesFollowCategories(i)
                /\ \A k \in TestingActivities(i) :
                      /\ week = 1 => acts[k].type = "diagnostic"
                      /\ week = plan.totalWeeks =>
                            /\ acts[k].type = "rest"
                            /\ acts[k].name = "Final Preparation"
                      /\ (week # 1 /\ week # plan.totalWeeks) =>
                            acts[k].type = "test"

\* C24: the activities follow the categories, and the testing activity is a
\* diagnostic on the plan's first week (also when that week is the last), a
\* "rest" activity named "Final Preparation" on a last week that is not the
\* first, a "test" in every other week.
C24_TestingActivityFirstWeekWins ==
    Done =>
        \A i \in DOMAIN plan.weeklyPlans :
            LET week == plan.weeklyPlans[i].weekNumber
                acts == plan.weeklyPlans[i].activities
            IN  /\ ActivitiesFollowCategories(i)
                /\ \A k \in TestingActivities(i) :
                      /\ week = 1 => acts[k].type = "diagnostic"
                      /\ (week # 1 /\ week = plan.totalWeeks) =>
                            /\ acts[k].type = "rest"
                            /\ acts[k].name = "Final Preparation"
                      /\ (week # 1 /\ week # plan.totalWeeks) =>
                            acts[k].type = "test"

C24_Witness ==
    /\ Done
    /\ plan.totalWeeks = 1
    /\ Len(plan.weeklyPlans) = 1
    /\ \E k \in DOMAIN plan.weeklyPlans[1].activities :
          plan.weeklyPlans[1].activities[k].type = "diagnostic"
    /\ ActivitiesFollowCategories(1)

\* generateWeeklyPlans has returned
WeeklyPlansGenerated == pc \in {"assemble", "done"}

UnownedWeeks == {w \in 1..timeline.effectiveWeeks : Owners(phases, w) = {}}

\* C25: generateWeeklyPlans does not return a list of weekly plans when its
\* phase list leaves some week of 1..totalWeeks outside every span: it never
\* returns a list that silently leaves weeks out.
C25_UnownedWeekFatal ==
    WeeklyPlansGenerated => UnownedWeeks = {}

\* steps 1, 3 and 4 of generateStudyPlan for the same scores and tutoring
\* frequency and a test date that gives one effective week more
TimelineOneWeekMore == calculateTimeline(7 * (timeline.effectiveWeeks + 2))

FeasibilityOneWeekMore ==
    assessFeasibility(TimelineOneWeekMore, scoreGap,
        recommendIntensity(TimelineOneWeekMore.effectiveWeeks,
                           scoreGap.totalGap,
                           input.tutoringSessionsPerWeek).intensity,
        input.tutoringSessionsPerWeek)

\* C26: for fixed scores and tutoring frequency, when the plan for
\* effectiveWeeks = w is feasible, the plan for effectiveWeeks = w + 1 (its
\* intensity selected anew) is feasible too and its projectedScore is not
\* lower.
C26_FeasibilityMonotone ==
    (Done /\ plan.feasibility.isFeasible) =>
        /\ TimelineOneWeekMore.effectiveWeeks = plan.totalWeeks + 1
        /\ FeasibilityOneWeekMore.isFeasible
        /\ ProjectedScore(input.currentScore,
                          FeasibilityOneWeekMore.projectedImprovement)
               >= plan.projectedScore

\* additionalWeeks of the extend_timeline entry of an infeasible assessment
AdditionalWeeks ==
    LET recs == feasibility.recommendations
    IN  recs[CHOOSE i \in DOMAIN recs :
                 recs[i].type = "extend_timeline"].details.additionalWeeks

\* assessFeasibility called again with the recommended weeks added and the
\* same gap, tier and tutoring frequency
FeasibilityExtended ==
    assessFeasibility(
        calculateTimeline(7 * (timeline.effectiveWeeks + AdditionalWeeks + 1)),
        scoreGap, recommendation.intensity, input.tutoringSessionsPerWeek)

\* maxImprovement of the assessed call
AssessedMaxImprovement ==
    FMul(FInt(MAX_IMPROVEMENTS[recommendation.intensity]),
         TUTORING_MULTIPLIERS[input.tutoringSessionsPerWeek])

\* C27 as stated: whenever the assessment is infeasible, the assessment of
\* effectiveWeeks + additionalWeeks with the same tier, tutoring frequency
\* and gap is feasible.
C27_ExtendTimelineSound ==
    (Assessed /\ ~feasibility.isFeasible) => FeasibilityExtended.isFeasible

\* C27: whenever the assessment is infeasible, the assessment of
\* effectiveWeeks + additionalWeeks with the same tier, tutoring frequency
\* and gap is feasible exactly when the gap is at most maxImprovement, the
\* tier's cap times the tutoring multiplier as the call computes it; above
\* the cap the extended timeline stays infeasible.
C27_ExtendTimelineSoundUnderCap ==
    (Assessed /\ ~feasibility.isFeasible) =>
        /\ FeasibilityExtended.isFeasible
               <=> FGe(AssessedMaxImprovement, FInt(scoreGap.totalGap))
        /\ ~FeasibilityExtended.isFeasible =>
               FeasibilityExtended.projectedImprovement
                   = AssessedMaxImprovement

C27_Witness ==
    /\ Assessed
    /\ ~feasibility.isFeasible
    /\ AdditionalWeeks = 3
    /\ timeline.effectiveWeeks = 5
    /\ FeasibilityExtended.isFeasible
    /\ FeasibilityExtended.projectedImprovement # AssessedMaxImprovement

\* the tier of the assessed call is the one step 3 of generateStudyPlan
\* picks for the call's weeks, gap and tutoring frequency
TierOfPipeline ==
    recommendation.intensity =
        recommendIntensity(timeline.effectiveWeeks, scoreGap.totalGap,
                           input.tutoringSessionsPerWeek).intensity

\* C28 as stated: whenever scoreGap.isAchievable is false, the feasibility
\* of the plan is false too.
C28_FlagsAgree ==
    (Assessed /\ TierOfPipeline /\ ~scoreGap.isAchievable) =>
        ~feasibility.isFeasible

\* C28: whenever scoreGap.isAchievable is false (totalGap > 500), the
\* assessment is infeasible unless the tier is very_intensive and the gap is
\* at most 450 x multiplier (540, 585, 607.5, 630 for 1 to 4 sessions).
C28_FlagsAgreeAboveTopCap ==
    (Assessed /\ ~scoreGap.isAchievable) =>
        /\ scoreGap.totalGap > 500
        /\ feasibility.isFeasible =>
              /\ recommendation.intensity = "very_intensive"
              /\ scoreGap.totalGap * 100 <=
                     450 * TutoringMultiplierHundredths[
                               input.tutoringSessionsPerWeek]

C28_Witness ==
    /\ Assessed
    /\ TierOfPipeline
    /\ ~scoreGap.isAchievable
    /\ feasibility.isFeasible
    /\ scoreGap.totalGap = 630
    /\ input.tutoringSessionsPerWeek = 4

\* a score rounded to the nearest multiple of ten, a five rounded up
NearestTen(score) == ((score + 5) \div 10) * 10

\* C29 as stated: a feasible plan for a target above the current score has
\* projectedScore >= targetScore, and every plan's projectedScore is a
\* multiple of 10 that is at most 1600.
C29_FeasibleReachesTarget ==
    Done =>
        /\ plan.projectedScore % 10 = 0
        /\ plan.projectedScore <= 1600
        /\ (plan.feasibility.isFeasible
              /\ input.targetScore > input.currentScore) =>
                 plan.projectedScore >= input.targetScore

\* C29: a feasible plan for a target above the current score has
\* projectedScore >= the target rounded to the nearest ten, which is the
\* target itself when that is a multiple of 10 and at most 4 below it
\* otherwise; every plan's projectedScore is a multiple of 10 that is at most
\* 1600.
C29_FeasibleReachesRoundedTarget ==
    Done =>
        /\ plan.projectedScore % 10 = 0
        /\ plan.projectedScore <= 1600
        /\ (plan.feasibility.isFeasible
              /\ input.targetScore > input.currentScore) =>
                 /\ plan.projectedScore >= NearestTen(input.targetScore)
                 /\ plan.projectedScore >= input.targetScore - 4
                 /\ input.targetScore % 10 = 0 =>
                        plan.projectedScore >= input.targetScore

C29_Witness ==
    /\ Done
    /\ plan.feasibility.isFeasible
    /\ input.currentScore = 1004
    /\ input.targetScore = 1014
    /\ plan.projectedScore = 1010

\* the focus of the generic set and of the four keyword-matched sets
FallbackFocus == <<"Final review", "Peak performance">>

KeywordFocuses ==
    { <<"Core concepts", "Foundation building">>,
      <<"Skill development", "Strategy introduction">>,
      <<"Advanced content", "Weak area targeting">>,
      <<"Test strategies", "Practice test review">> }

\* C30: in every generated plan a week that is neither week 1 nor the last
\* week and belongs to a phase other than the final one gets one of the four
\* keyword-matched tutoring sets, never the generic "Final review" /
\* "Peak performance" set.
C30_FallbackOnlyInFinalPhase ==
    Done =>
        \A i \in DOMAIN plan.weeklyPlans :
            LET week == plan.weeklyPlans[i].weekNumber
            IN  (/\ week # 1
                 /\ week # plan.totalWeeks
                 /\ FindPhase(plan.phases, week) # Len(plan.phases)) =>
                    \A k \in DOMAIN plan.weeklyPlans[i].tutoringSessions :
                        /\ plan.weeklyPlans[i].tutoringSessions[k].focus
                               \in KeywordFocuses
                        /\ plan.weeklyPlans[i].tutoringSessions[k].focus
                               # FallbackFocus

====
